---- MODULE Spec2Model ----
(***************************************************************************)
(* GestureArt: the frame loop of GestureArtApp.run (src/main.py) together  *)
(* with the two stateful collaborators it drives, the GestureRecognizer    *)
(* and the CanvasEngine.  Their modules (gesture_recognition.py,           *)
(* canvas_engine.py, ui.py, hand_tracking.py) are imported by main.py but  *)
(* their code is not part of the sources at hand, so they are modelled     *)
(* from their documented contracts; everything main.py does itself is      *)
(* translated from its code.                                               *)
(***************************************************************************)
EXTENDS Integers, Sequences, FiniteSets, TLC

\* ------------------------------------------------------------------ bounds
MaxPoint == 2        \* pixel positions are drawn from 1..MaxPoint
MaxInk == 2          \* stamps on the raster
MaxStroke == 2       \* points of the active stroke
MaxHistory == 2      \* entries of the history
MaxWindow == 2       \* the debounce window is any of 1..MaxWindow
MaxHold == MaxWindow + 1   \* run lengths are counted up to here
MaxCount == 2        \* per-run event counters saturate here

\* --------------------------------------------------------------- constants
DetectionThreshold == 75   \* GestureRecognizer(detection_threshold=0.75), in percent
HandLossFrames == 2        \* hand-loss timeout of the recognizer, in frames

Points == 1..MaxPoint
NoPoint == 0               \* Python's None for a point
Confidences == {50, 90}    \* a match below and a match above the threshold

\* GestureType and GestureState (gesture_recognition)
GestureTypes == {"NONE", "DRAW", "CLEAR", "UNDO", "REDO", "SAVE", "TOOL_CHANGE", "SELECT"}
Signatures == GestureTypes \ {"NONE"}
GestureStates == {"NONE", "IN_PROGRESS", "COMPLETED"}

\* BrushType, in declaration order (canvas_engine)
BrushTypes == <<"PENCIL", "MARKER", "AIRBRUSH", "ERASER">>

Min(a, b) == IF a < b THEN a ELSE b

\* ------------------------------------------------------ GestureRecognizer
\* Session state: the active candidate, how long it has been held, and the
\* gesture that last fired and is still being held.
RecognizerInit == [cand |-> "NONE", count |-> 0, fired |-> "NONE"]

\* A signature match below the detection threshold is GestureType.NONE.
Classify(sig, conf) == IF conf >= DetectionThreshold THEN sig ELSE "NONE"

\* recognize_gesture: the debounce state machine.  raw is the classified
\* pose of the frame, n the debounce window.  Result: the reported gesture,
\* its state, and the next session state.
RecognizeGesture(rec, raw, n) ==
    IF raw = "NONE"
      THEN [gesture |-> "NONE", state |-> "NONE", rec |-> RecognizerInit]
    ELSE IF raw = "DRAW"
      THEN [gesture |-> "DRAW", state |-> "IN_PROGRESS", rec |-> RecognizerInit]
    ELSE IF rec.fired = raw
      THEN [gesture |-> "NONE", state |-> "NONE", rec |-> rec]
    ELSE LET held == IF rec.cand = raw THEN rec.count + 1 ELSE 1
         IN  IF held >= n
               THEN [gesture |-> raw, state |-> "COMPLETED",
                     rec |-> [cand |-> "NONE", count |-> 0, fired |-> raw]]
               ELSE [gesture |-> raw, state |-> "IN_PROGRESS",
                     rec |-> [cand |-> raw, count |-> held, fired |-> "NONE"]]

\* The out-of-band reset the recognizer offers for a hand-loss timeout.
RecognizerReset(rec) == RecognizerInit

\* ------------------------------------------------------------ CanvasEngine
Blank == <<>>              \* the raster filled with the background colour

\* Brush configuration the constructor starts from.  Opacity, hardness and
\* flow are fractions of 1, held in percent.
MinSize == 1
MaxSize == 50
DefaultSize == 5
DefaultColor == 1

CanvasInit ==
    [raster |-> Blank, active |-> <<>>, base |-> Blank,
     history |-> <<>>, cursor |-> 0, brush_type |-> BrushTypes[1],
     color |-> DefaultColor, brush_size |-> DefaultSize,
     opacity |-> 100, hardness |-> 100, flow |-> 100]

\* One stamp of the brush at a point.
Stamp(c, point) == <<point, c.brush_type>>

\* Appending an entry at the cursor discards every entry beyond it.
Commit(c, entry) ==
    [c EXCEPT !.history = Append(SubSeq(c.history, 1, c.cursor), entry),
              !.cursor = c.cursor + 1]

\* draw(point, pressure, is_drawing): a point extends the active stroke and
\* is rasterised at once (live preview); a null point seals the stroke and
\* commits it as one history entry.
CanvasDraw(c, point, is_drawing) ==
    IF point # NoPoint /\ is_drawing
      THEN [c EXCEPT !.base = IF c.active = <<>> THEN c.raster ELSE c.base,
                     !.active = Append(c.active, point),
                     !.raster = Append(c.raster, Stamp(c, point))]
    ELSE IF c.active = <<>>
      THEN c
    ELSE [Commit(c, [kind |-> "stroke", points |-> c.active,
                     before |-> c.base, after |-> c.raster])
            EXCEPT !.active = <<>>, !.base = Blank]

\* clear(): commits a "clear" entry holding the prior raster, then resets
\* the raster to the background.
CanvasClear(c) ==
    [Commit(c, [kind |-> "clear", points |-> <<>>,
                before |-> c.raster, after |-> Blank])
       EXCEPT !.raster = Blank]

\* undo() / redo(): move the cursor one step; no-ops at the boundaries.
CanvasUndo(c) ==
    IF c.cursor = 0 THEN c
    ELSE [c EXCEPT !.raster = c.history[c.cursor].before,
                   !.cursor = c.cursor - 1]

CanvasRedo(c) ==
    IF c.cursor = Len(c.history) THEN c
    ELSE [c EXCEPT !.raster = c.history[c.cursor + 1].after,
                   !.cursor = c.cursor + 1]

\* save(path): writes the raster out; the canvas is not changed.
CanvasSave(c) == c

CanvasSetBrush(c, b) == [c EXCEPT !.brush_type = b]

\* Configuration mutators: out-of-range numbers are clamped, never rejected.
Clamp(v, lo, hi) == IF v < lo THEN lo ELSE IF v > hi THEN hi ELSE v

CanvasSetColor(c, rgb) == [c EXCEPT !.color = rgb]

CanvasSetBrushSize(c, n) == [c EXCEPT !.brush_size = Clamp(n, MinSize, MaxSize)]

CanvasSetOpacity(c, f) == [c EXCEPT !.opacity = Clamp(f, 0, 100)]

CanvasSetHardness(c, f) == [c EXCEPT !.hardness = Clamp(f, 0, 100)]

CanvasSetFlow(c, f) == [c EXCEPT !.flow = Clamp(f, 0, 100)]

\* get_transformed_canvas(): the raster under the identity transform.
GetTransformedCanvas(c) == c.raster

\* ------------------------------------------------- GestureArtApp.run, pure
\* Mutant: the thumb tip, landmark 4, is taken for the drawing point.
InteractionPointThumb(lm8, lm4) == lm4

\* interaction_point = (landmarks[8][1], landmarks[8][2]): the index fingertip.
InteractionPoint(lm8, lm4) == lm8

\* The pen-up of the non-DRAW branch: draw(None) when a stroke was being drawn.
PenUp(c, lds) == IF lds THEN CanvasDraw(c, NoPoint, FALSE) ELSE c

\* Mutant: the dispatch without its test of state == GestureState.COMPLETED.
GestureActionAnyState(g, s) ==
    IF g = "CLEAR" THEN "clear"
    ELSE IF g = "UNDO" THEN "undo"
    ELSE IF g = "REDO" THEN "redo"
    ELSE IF g = "SAVE" THEN "save"
    ELSE IF g = "TOOL_CHANGE" THEN "next_brush"
    ELSE "none"

\* Mutant: the UNDO and REDO branches call each other's method.
GestureActionSwapped(g, s) ==
    IF s # "COMPLETED" THEN "none"
    ELSE IF g = "CLEAR" THEN "clear"
    ELSE IF g = "UNDO" THEN "redo"
    ELSE IF g = "REDO" THEN "undo"
    ELSE IF g = "SAVE" THEN "save"
    ELSE IF g = "TOOL_CHANGE" THEN "next_brush"
    ELSE "none"

\* The command the gesture dispatch picks for a reported gesture and state.
GestureAction(g, s) ==
    IF s # "COMPLETED" THEN "none"
    ELSE IF g = "CLEAR" THEN "clear"
    ELSE IF g = "UNDO" THEN "undo"
    ELSE IF g = "REDO" THEN "redo"
    ELSE IF g = "SAVE" THEN "save"
    ELSE IF g = "TOOL_CHANGE" THEN "next_brush"
    ELSE "none"

IndexOf(seq, x) == CHOOSE i \in 1..Len(seq) : seq[i] = x

\* Mutant: the index is stepped without the modulo, stopping at the last.
NextBrushNoWrap(b) == BrushTypes[Min(IndexOf(BrushTypes, b) + 1, Len(BrushTypes))]

\* brushes[(idx + 1) % len(brushes)], with 1-based positions.
NextBrush(b) == BrushTypes[(IndexOf(BrushTypes, b) % Len(BrushTypes)) + 1]

\* The canvas call a gesture command makes.
ApplyGestureAction(c, cmd) ==
    CASE cmd = "clear" -> CanvasClear(c)
      [] cmd = "undo" -> CanvasUndo(c)
      [] cmd = "redo" -> CanvasRedo(c)
      [] cmd = "save" -> CanvasSave(c)
      [] cmd = "next_brush" -> CanvasSetBrush(c, NextBrush(c.brush_type))
      [] OTHER -> c

\* The whole gesture path of a frame in which a hand was found.
GesturePath(c, lds, g, s, point) ==
    IF g = "DRAW"
      THEN CanvasDraw(c, point, TRUE)
      ELSE ApplyGestureAction(PenUp(c, lds), GestureAction(g, s))

\* Mutant: the reset of line 55 is forgotten.
LastDrawStateKept(lds, g) == IF g = "DRAW" THEN TRUE ELSE lds

\* self.last_draw_state after the gesture path: True in the DRAW branch,
\* False after the pen-up of the other branch.
LastDrawState(lds, g) == IF g = "DRAW" THEN TRUE ELSE IF lds THEN FALSE ELSE lds

\* The CanvasEngine method a gesture command calls.
GestureOp(cmd) == IF cmd = "next_brush" THEN "set_brush" ELSE cmd

\* The clicked argument handed to ui.handle_interaction.
Clicked(g, mc) == g = "SELECT" \/ mc

\* ------------------------------------------------------ the UI interaction
\* What ui.handle_interaction returns: None, or a dict with a "type" and,
\* by type, a "name", a "value" and a "color".
Missing == "<missing>"     \* the dict has no "name" key
NotAStr == "<not a str>"   \* a name that is not a Python str (truthy)
NoColor == 0               \* the dict has no "color" key

\* A value is None (or absent), a number, or a string; num is what it
\* denotes when it denotes a number, in hundredths.
ValueKinds == {"none", "int", "float", "intstr", "floatstr", "text"}
NoValue == [kind |-> "none", num |-> 0]
Value(k, h) == [kind |-> k, num |-> h]

NoInteraction ==
    [type |-> "none", name |-> Missing, value |-> NoValue, color |-> NoColor]

Interaction(t, n, v, col) ==
    [type |-> t, name |-> n, value |-> v, color |-> col]

\* int(val): accepts an int, a float (truncated towards zero) and the text
\* of an integer; raises on the text of a fraction and on any other text.
IntOf(v) ==
    [ok |-> v.kind \in {"int", "float", "intstr"},
     n |-> IF v.num >= 0 THEN v.num \div 100 ELSE 0 - ((0 - v.num) \div 100)]

\* float(val), as a fraction of 1 held in percent: raises only on text that
\* is not a number.
FloatOf(v) ==
    [ok |-> v.kind \in {"int", "float", "intstr", "floatstr"}, n |-> v.num]

\* brush_name.upper(), on the names the UI can carry.
Upper(name) ==
    CASE name \in {"pencil", "Pencil", "PENCIL"} -> "PENCIL"
      [] name \in {"marker", "MARKER"} -> "MARKER"
      [] name \in {"airbrush", "AIRBRUSH"} -> "AIRBRUSH"
      [] name \in {"eraser", "ERASER"} -> "ERASER"
      [] OTHER -> "BOGUS"

IsBrushType(n) == \E i \in 1..Len(BrushTypes) : BrushTypes[i] = n

\* interaction["color"] and interaction["name"] raise KeyError on a dict
\* without the key, outside any try.
UIRaises(i) ==
    \/ i.type = "color_selected" /\ i.color = NoColor
    \/ i.type = "brush_selected" /\ i.name = Missing

\* `if prop and val is not None`, then the branch on prop.
PropertyAccepted(i) ==
    /\ i.name \notin {Missing, ""}
    /\ i.value.kind # "none"
    /\ i.name \in {"size", "opacity", "hardness", "flow"}

PropertyNumber(i) == IF i.name = "size" THEN IntOf(i.value) ELSE FloatOf(i.value)

PropertySetter(name) ==
    CASE name = "size" -> "set_size"
      [] name = "opacity" -> "set_opacity"
      [] name = "hardness" -> "set_hardness"
      [] name = "flow" -> "set_flow"

\* The one canvas call the dispatch on interaction["type"] makes, if any;
\* picker is the colour picker's current_color.
NoCall == [op |-> "none", brush |-> "", num |-> 0]
CanvasCall(o, b, n) == [op |-> o, brush |-> b, num |-> n]

UICall(i, picker) ==
    CASE i.type \in {"clear", "undo", "redo", "save"} -> CanvasCall(i.type, "", 0)
      [] i.type = "color_selected" /\ ~UIRaises(i) -> CanvasCall("set_color", "", i.color)
      [] i.type = "slider_changed" -> CanvasCall("set_color", "", picker)
      [] i.type = "brush_selected" /\ ~UIRaises(i) /\ i.name # NotAStr
            /\ IsBrushType(Upper(i.name)) -> CanvasCall("set_brush", Upper(i.name), 0)
      [] i.type = "brush_property_changed" /\ PropertyAccepted(i)
            /\ PropertyNumber(i).ok -> CanvasCall(PropertySetter(i.name), "", PropertyNumber(i).n)
      [] OTHER -> NoCall

\* A call of the dispatch applied to the canvas.
CanvasApply(c, call) ==
    CASE call.op = "clear" -> CanvasClear(c)
      [] call.op = "undo" -> CanvasUndo(c)
      [] call.op = "redo" -> CanvasRedo(c)
      [] call.op = "save" -> CanvasSave(c)
      [] call.op = "set_color" -> CanvasSetColor(c, call.num)
      [] call.op = "set_brush" -> CanvasSetBrush(c, call.brush)
      [] call.op = "set_size" -> CanvasSetBrushSize(c, call.num)
      [] call.op = "set_opacity" -> CanvasSetOpacity(c, call.num)
      [] call.op = "set_hardness" -> CanvasSetHardness(c, call.num)
      [] call.op = "set_flow" -> CanvasSetFlow(c, call.num)
      [] OTHER -> c

\* Mutant: the "clear" branch of the dispatch calls canvas.undo().
UICommandClearUndoes(c, i, picker) ==
    CASE i.type \in {"clear", "undo"} -> CanvasUndo(c)
      [] i.type = "redo" -> CanvasRedo(c)
      [] OTHER -> c

\* The dispatch on interaction["type"], as it changes the canvas.
UICommand(c, i, picker) == CanvasApply(c, UICall(i, picker))

\* What the dispatch prints.
UIMessage(i) ==
    IF i.type = "brush_selected" /\ ~UIRaises(i) /\ i.name # NotAStr
          /\ ~IsBrushType(Upper(i.name))
      THEN "Invalid brush name"
    ELSE IF i.type = "brush_property_changed" /\ PropertyAccepted(i)
              /\ ~PropertyNumber(i).ok
      THEN "Error setting brush property"
    ELSE ""

\* The history command a UI interaction or a gesture action amounts to.
HistoryOp(cmd) == IF cmd \in {"clear", "undo", "redo"} THEN cmd ELSE "none"

\* --------------------------------------------------------------- the state
VARIABLES
    pc,                \* where run() stands: read, ui, post, key, done, aborted
    window,            \* the recognizer's debounce window
    cap_released,      \* cap.release() has been called
    last_draw_state,
    mouse_point,
    mouse_click,
    recognizer,        \* the GestureRecognizer's session state
    canvas,            \* the CanvasEngine's state
    gesture,           \* locals of the tick
    state,
    conf,
    interaction_point,
    logged,            \* what main.py printed in this tick
    \* history variables, read by the properties only
    prevDraw,          \* the previous frame's gesture was DRAW
    commits,           \* strokes committed by this tick's pen-up
    sealed,            \* the stroke that pen-up committed, and the points fed to it
    fed,               \* fingertip positions of the DRAW frames since the last pen-up
    hold,              \* the run of recognizer calls showing one debounced pose
    absent,            \* consecutive frames without a hand
    track,             \* the last history operation applied to the canvas
    saveFailed,        \* a canvas.save of this tick failed
    calls,             \* the collaborator calls of this tick, in order
    uiCmd,             \* what handle_interaction returned in this tick
    uiChanged,         \* the UI dispatch of this tick changed the canvas
    click,             \* what became of the last left-button-down event
    tool               \* the brushes set by the TOOL_CHANGE gestures in a row

vars == <<pc, window, cap_released, last_draw_state, mouse_point, mouse_click,
          recognizer, canvas, gesture, state, conf, interaction_point, logged,
          prevDraw, commits, sealed, fed, hold, absent, track, saveFailed,
          calls, uiCmd, uiChanged, click, tool>>

appVars == <<last_draw_state, mouse_point, mouse_click, recognizer, canvas>>
localVars == <<gesture, state, conf, interaction_point>>
ghostVars == <<prevDraw, commits, sealed, fed, hold, absent, track, saveFailed,
               calls, uiCmd, uiChanged, click, tool>>

NoSeal == [stroke |-> <<>>, fed |-> <<>>]
NoHold == [pose |-> "NONE", len |-> 0, completed |-> 0, clears |-> 0, clicks |-> 0]
NoTrack == [lastOp |-> "none", dropped |-> 0, preUndo |-> <<>>]
NoTool == [start |-> "", seen |-> <<>>, kept |-> TRUE]

\* One entry of the tick's call log: the collaborator called, the path of
\* run() that called it, the operation, and whether a stroke was active
\* and unsealed on the canvas when the call was made.
Call(target, from, o, c) ==
    [on |-> target, by |-> from, op |-> o, open |-> c.active # <<>>]

\* The record of a history operation op about to be applied to canvas c.
Track(tr, c, op) ==
    CASE op \in {"commit", "clear"} ->
           [lastOp |-> op, dropped |-> Len(c.history) - c.cursor, preUndo |-> <<>>]
      [] op = "undo" ->
           [lastOp |-> op, dropped |-> 0,
            preUndo |-> IF c.cursor > 0 THEN <<c.raster>> ELSE <<>>]
      [] op \in {"redo", "draw"} ->
           [lastOp |-> op, dropped |-> 0, preUndo |-> <<>>]
      [] OTHER -> tr

\* The inputs of a tick are offered while the canvas they lead to stays
\* within the bounds, with room left to commit a stroke that is active.
Fits(c) ==
    /\ Len(c.raster) <= MaxInk
    /\ Len(c.active) <= MaxStroke
    /\ Len(c.history) <= MaxHistory
    /\ c.active # <<>> => c.cursor < MaxHistory

Bump(n, cond) == IF cond THEN Min(n + 1, MaxCount) ELSE n

\* The calls of a frame with a hand, in the order run() makes them.
GestureCalls(c, lds, g, s) ==
    <<Call("recognizer", "gesture", "recognize_gesture", c)>> \o
    (IF g = "DRAW"
       THEN <<Call("canvas", "gesture", "draw", c)>>
       ELSE (IF lds THEN <<Call("canvas", "gesture", "pen_up", c)>> ELSE <<>>) \o
            (IF GestureAction(g, s) # "none"
               THEN <<Call("canvas", "gesture", GestureOp(GestureAction(g, s)), PenUp(c, lds))>>
               ELSE <<>>))

\* The calls of the UI step: handle_interaction, then the dispatch's call.
UICalls(c, i, picker) ==
    <<Call("ui", "ui", "handle_interaction", c)>> \o
    (IF UICall(i, picker).op # "none"
       THEN <<Call("canvas", "ui", UICall(i, picker).op, c)>>
       ELSE <<>>)

\* The TOOL_CHANGE gestures in a row: the brush they started from, the
\* brushes they set, and whether each left raster, stroke and history alone.
ToolStep(tl, before, after) ==
    LET same == /\ after.raster = before.raster /\ after.active = before.active
                /\ after.history = before.history /\ after.cursor = before.cursor
    IN  IF tl.seen = <<>> \/ Len(tl.seen) >= Len(BrushTypes)
          THEN [start |-> before.brush_type, seen |-> <<after.brush_type>>, kept |-> same]
          ELSE [tl EXCEPT !.seen = Append(@, after.brush_type), !.kept = @ /\ same]

\* The fate of a left-button-down event at the end of a tick.
AfterTick(ck, mc) ==
    IF ck = "pending" THEN "dropped"
    ELSE IF ck = "delivered" /\ mc THEN "again"
    ELSE "none"

Init ==
    /\ pc = "read"
    /\ window \in 1..MaxWindow
    /\ cap_released = FALSE
    /\ last_draw_state = FALSE
    /\ mouse_point = NoPoint
    /\ mouse_click = FALSE
    /\ recognizer = RecognizerInit
    /\ canvas = CanvasInit
    /\ gesture = "NONE"
    /\ state = "NONE"
    /\ conf = 0
    /\ interaction_point = NoPoint
    /\ logged = ""
    /\ prevDraw = FALSE
    /\ commits = 0
    /\ sealed = NoSeal
    /\ fed = <<>>
    /\ hold = NoHold
    /\ absent = 0
    /\ track = NoTrack
    /\ saveFailed = FALSE
    /\ calls = <<>>
    /\ uiCmd = NoInteraction
    /\ uiChanged = FALSE
    /\ click = "none"
    /\ tool = NoTool

\* ------------------------------------------------------------- the actions
\* Mutant: the break after the message is missing, and the tick goes on
\* without a frame.
CameraErrorNoBreak ==
    /\ pc = "read"
    /\ pc' = "ui"
    /\ logged' = "Camera Error"
    /\ UNCHANGED <<window, cap_released, appVars, localVars, ghostVars>>

\* cap.read() fails: "Camera Error", the loop is left, and what follows the
\* loop runs: cap.release() and destroyAllWindows().
CameraError ==
    /\ pc = "read"
    /\ pc' = "done"
    /\ logged' = "Camera Error"
    /\ cap_released' = TRUE
    /\ UNCHANGED <<window, appVars, localVars, ghostVars>>

\* A frame in which a hand is detected and its positions are found: the
\* recognizer is called and the gesture path runs (up to the UI call).
HandFrame(sig, score, lm8, lm4, saveOk) ==
    LET raw == Classify(sig, score)
        r == RecognizeGesture(recognizer, raw, window)
        point == InteractionPoint(lm8, lm4)
        cmd == GestureAction(r.gesture, r.state)
        c1 == PenUp(canvas, last_draw_state)
        didSeal == r.gesture # "DRAW" /\ c1 # canvas
        t1 == IF r.gesture = "DRAW" THEN Track(track, canvas, "draw")
              ELSE IF didSeal THEN Track(track, canvas, "commit")
              ELSE track
        h0 == IF raw \in {"NONE", "DRAW"} THEN NoHold
              ELSE IF raw = hold.pose
                THEN [hold EXCEPT !.len = Min(hold.len + 1, MaxHold)]
                ELSE [NoHold EXCEPT !.pose = raw, !.len = 1]
    IN  /\ pc = "read"
        /\ Fits(GesturePath(canvas, last_draw_state, r.gesture, r.state, point))
        /\ saveOk \/ cmd = "save"
        /\ pc' = "ui"
        /\ gesture' = r.gesture
        /\ state' = r.state
        /\ conf' = score
        /\ recognizer' = r.rec
        /\ interaction_point' = point
        /\ canvas' = GesturePath(canvas, last_draw_state, r.gesture, r.state, point)
        /\ last_draw_state' = LastDrawState(last_draw_state, r.gesture)
        /\ saveFailed' = ~saveOk
        /\ commits' = IF didSeal THEN 1 ELSE 0
        /\ sealed' = IF didSeal
                       THEN [stroke |-> c1.history[c1.cursor].points, fed |-> fed]
                       ELSE NoSeal
        /\ fed' = IF r.gesture = "DRAW" THEN Append(fed, lm8)
                  ELSE IF didSeal THEN <<>> ELSE fed
        /\ hold' = [h0 EXCEPT !.completed = Bump(h0.completed, r.state = "COMPLETED"),
                              !.clears = Bump(h0.clears, cmd = "clear")]
        /\ absent' = 0
        /\ track' = Track(t1, c1, HistoryOp(cmd))
        /\ calls' = calls \o GestureCalls(canvas, last_draw_state, r.gesture, r.state)
        /\ click' = IF click = "dropped" THEN "none" ELSE click
        /\ tool' = IF cmd = "next_brush" THEN ToolStep(tool, c1, canvas') ELSE tool
        /\ UNCHANGED <<window, cap_released, mouse_point, mouse_click, logged, prevDraw,
                       uiCmd, uiChanged>>

\* Mutant: the pen-up is made in frames without a hand as well.
NoHandFrameSeals(hands_detected, found) ==
    /\ pc = "read"
    /\ ~(hands_detected /\ found)
    /\ pc' = "ui"
    /\ gesture' = "NONE"
    /\ state' = "NONE"
    /\ conf' = 0
    /\ interaction_point' = mouse_point
    /\ absent' = Min(absent + 1, HandLossFrames)
    /\ canvas' = PenUp(canvas, last_draw_state)
    /\ last_draw_state' = FALSE
    /\ commits' = 0
    /\ sealed' = NoSeal
    /\ saveFailed' = FALSE
    /\ click' = IF click = "dropped" THEN "none" ELSE click
    /\ UNCHANGED <<window, cap_released, mouse_point, mouse_click, recognizer, logged,
                   prevDraw, fed, hold, track, calls, uiCmd, uiChanged, tool>>

\* Mutant: the recognizer is called without the test of found.
NoHandFrameRecognizes(hands_detected, found) ==
    /\ pc = "read"
    /\ ~(hands_detected /\ found)
    /\ pc' = "ui"
    /\ gesture' = "NONE"
    /\ state' = "NONE"
    /\ conf' = 0
    /\ interaction_point' = mouse_point
    /\ absent' = Min(absent + 1, HandLossFrames)
    /\ commits' = 0
    /\ sealed' = NoSeal
    /\ saveFailed' = FALSE
    /\ click' = IF click = "dropped" THEN "none" ELSE click
    /\ calls' = IF hands_detected
                  THEN calls \o <<Call("recognizer", "gesture", "recognize_gesture", canvas)>>
                  ELSE calls
    /\ UNCHANGED <<window, cap_released, appVars, logged, prevDraw, fed, hold, track,
                   uiCmd, uiChanged, tool>>

\* A frame with no hand, or with a hand whose positions are not found: the
\* gesture stays NONE and the recognizer is not called.
NoHandFrame(hands_detected, found) ==
    /\ pc = "read"
    /\ ~(hands_detected /\ found)
    /\ pc' = "ui"
    /\ gesture' = "NONE"
    /\ state' = "NONE"
    /\ conf' = 0
    /\ interaction_point' = mouse_point
    /\ absent' = Min(absent + 1, HandLossFrames)
    /\ commits' = 0
    /\ sealed' = NoSeal
    /\ saveFailed' = FALSE
    /\ click' = IF click = "dropped" THEN "none" ELSE click
    /\ UNCHANGED <<window, cap_released, appVars, logged, prevDraw, fed, hold, track,
                   calls, uiCmd, uiChanged, tool>>

\* Mutant: handle_interaction and its dispatch are placed ahead of the
\* gesture path, on the mouse position; nothing is left to do after it.
UIStepBeforeGesture(i, picker, saveOk) ==
    \/ /\ pc = "read" /\ calls = <<>>
       /\ i # NoInteraction => mouse_click /\ mouse_point # NoPoint
       /\ Fits(UICommand(canvas, i, picker))
       /\ canvas' = UICommand(canvas, i, picker)
       /\ calls' = UICalls(canvas, i, picker)
       /\ UNCHANGED <<pc, window, cap_released, last_draw_state, mouse_point,
                      mouse_click, recognizer, localVars, logged, prevDraw, commits,
                      sealed, fed, hold, absent, track, saveFailed, uiCmd, uiChanged,
                      click, tool>>
    \/ /\ pc = "ui"
       /\ pc' = "post"
       /\ UNCHANGED <<window, cap_released, appVars, localVars, logged, ghostVars>>

\* ui.handle_interaction and the dispatch on what it returns.  The UI
\* returns a command only for a click at a point.
UIStep(i, picker, saveOk) ==
    LET clicked == Clicked(gesture, mouse_click)
    IN  /\ pc = "ui"
        /\ i # NoInteraction => clicked /\ interaction_point # NoPoint
        /\ Fits(UICommand(canvas, i, picker))
        /\ saveOk \/ i.type = "save"
        /\ pc' = IF UIRaises(i) THEN "aborted" ELSE "post"
        /\ canvas' = UICommand(canvas, i, picker)
        /\ logged' = UIMessage(i)
        /\ saveFailed' = (saveFailed \/ ~saveOk)
        /\ hold' = [hold EXCEPT !.clicks = Bump(hold.clicks, gesture = "SELECT")]
        /\ track' = Track(track, canvas, HistoryOp(UICall(i, picker).op))
        /\ calls' = calls \o UICalls(canvas, i, picker)
        /\ uiCmd' = i
        /\ uiChanged' = (canvas' # canvas)
        /\ click' = IF mouse_click THEN "delivered" ELSE click
        /\ tool' = IF UICall(i, picker).op = "set_brush" THEN NoTool ELSE tool
        /\ UNCHANGED <<window, cap_released, last_draw_state, mouse_point, mouse_click,
                       recognizer, localVars, prevDraw, commits, sealed, fed, absent>>

\* mouse_click = False, then the canvas is fetched, composed and shown.
PostStep ==
    /\ pc = "post"
    /\ pc' = "key"
    /\ mouse_click' = FALSE
    /\ gesture' = "NONE"
    /\ state' = "NONE"
    /\ conf' = 0
    /\ interaction_point' = NoPoint
    /\ logged' = ""
    /\ prevDraw' = (gesture = "DRAW")
    /\ commits' = 0
    /\ sealed' = NoSeal
    /\ saveFailed' = FALSE
    /\ calls' = <<>>
    /\ uiCmd' = NoInteraction
    /\ uiChanged' = FALSE
    /\ click' = AfterTick(click, mouse_click')
    /\ tool' = IF Len(tool.seen) >= Len(BrushTypes) THEN NoTool ELSE tool
    /\ UNCHANGED <<window, cap_released, last_draw_state, mouse_point, recognizer,
                   canvas, fed, hold, absent, track>>

\* cv2.waitKey(1) dispatches the window's pending events: mouse_callback.
MouseCallback(x, down) ==
    /\ pc = "key"
    /\ mouse_point' = x
    /\ mouse_click' = (mouse_click \/ down)
    /\ click' = IF down THEN "pending" ELSE click
    /\ UNCHANGED <<pc, window, cap_released, last_draw_state, recognizer, canvas,
                   localVars, logged, prevDraw, commits, sealed, fed, hold, absent,
                   track, saveFailed, calls, uiCmd, uiChanged, tool>>

\* mouse_callback run between two statements of the tick rather than from
\* within waitKey: before the frame is read, before handle_interaction is
\* called, or before mouse_click is reset.
MouseCallbackBetween(x, down) ==
    /\ pc \in {"read", "ui", "post"}
    /\ mouse_point' = x
    /\ mouse_click' = (mouse_click \/ down)
    /\ click' = IF down THEN "pending" ELSE click
    /\ UNCHANGED <<pc, window, cap_released, last_draw_state, recognizer, canvas,
                   localVars, logged, prevDraw, commits, sealed, fed, hold, absent,
                   track, saveFailed, calls, uiCmd, uiChanged, tool>>

\* waitKey returns 'q': the loop is left, and what follows the loop runs:
\* cap.release() and destroyAllWindows().
KeyQuit ==
    /\ pc = "key"
    /\ pc' = "done"
    /\ cap_released' = TRUE
    /\ UNCHANGED <<window, appVars, localVars, logged, ghostVars>>

\* waitKey returns anything else: the next tick.
KeyContinue ==
    /\ pc = "key"
    /\ pc' = "read"
    /\ UNCHANGED <<window, cap_released, appVars, localVars, logged, ghostVars>>

\* A collaborator call of the tick raises.  run() has no handler around the
\* tracker, recognizer, canvas, UI or rendering calls, so the exception
\* leaves run().
CollaboratorRaises ==
    /\ pc \in {"read", "ui", "post"}
    /\ pc' = "aborted"
    /\ UNCHANGED <<window, cap_released, appVars, localVars, logged, ghostVars>>

\* The UI's interactions, by what they ask for.
HistoryInputs == {Interaction(t, Missing, NoValue, NoColor) : t \in {"clear", "undo", "redo"}}
SaveInput == Interaction("save", Missing, NoValue, NoColor)

\* Colours other than the default one.
Colors == {DefaultColor, DefaultColor + 1}

\* Brush picks: known names in several spellings, an unknown name, a name
\* that is not a string, and a dict without a name.
BrushInputs ==
    {Interaction("brush_selected", n, NoValue, NoColor) :
        n \in {"marker", "Pencil", "crayon", NotAStr, Missing}}

\* Property changes: 7, -5, 3.7, "2.5", "abc" and None for the size and
\* the opacity, an unknown property, an empty and an absent name.
PropertyValues ==
    {Value("int", 700), Value("int", 0 - 500), Value("float", 370),
     Value("floatstr", 250), Value("text", 0), NoValue}

PropertyInputs ==
    {Interaction("brush_property_changed", n, v, NoColor) :
        n \in {"size", "opacity"}, v \in PropertyValues}
    \cup {Interaction("brush_property_changed", n, Value("int", 700), NoColor) :
             n \in {"hardness", "flow", "angle", "", Missing, NotAStr}}

\* Colour picks, with and without the colour, and a slider change.
ColorInputs ==
    {Interaction("color_selected", Missing, NoValue, col) : col \in {NoColor, DefaultColor + 1}}
    \cup {Interaction("slider_changed", Missing, NoValue, NoColor)}

ConfigInputs == BrushInputs \cup PropertyInputs \cup ColorInputs

\* A tick's steps over the poses, the positions and the UI interactions a
\* specification offers.
NextOver(sigs, pts, uis) ==
    \/ CameraError
    \/ \E sig \in sigs, score \in Confidences, lm8 \in pts, lm4 \in pts,
          saveOk \in BOOLEAN : HandFrame(sig, score, lm8, lm4, saveOk)
    \/ \E h \in BOOLEAN, f \in BOOLEAN : NoHandFrame(h, f)
    \/ \E i \in uis \cup {NoInteraction}, saveOk \in BOOLEAN :
          \E picker \in (IF i.type = "slider_changed" THEN Colors ELSE {DefaultColor}) :
              UIStep(i, picker, saveOk)
    \/ PostStep
    \/ \E x \in pts, down \in BOOLEAN : MouseCallback(x, down)
    \/ KeyQuit
    \/ KeyContinue
    \/ CollaboratorRaises

\* Drawing and the gesture commands, over all positions; the UI saves.
Next == NextOver({"DRAW", "CLEAR", "UNDO", "REDO", "SAVE"}, Points, {SaveInput})

Spec == Init /\ [][Next]_vars

\* Drawing with the UI's history commands arriving at any tick.
NextUI == NextOver({"DRAW", "UNDO", "SAVE"}, {1}, HistoryInputs \cup {SaveInput})

SpecUI == Init /\ [][NextUI]_vars

\* The debounced gestures.
NextGesture == NextOver({"DRAW", "CLEAR", "SELECT", "TOOL_CHANGE"}, {1}, {SaveInput})

SpecGesture == Init /\ [][NextGesture]_vars

\* The UI's configuration commands, arriving while strokes are drawn.
NextConfig == NextOver({"DRAW"}, {1}, ConfigInputs)

SpecConfig == Init /\ [][NextConfig]_vars

\* The mouse callback firing at any statement boundary of the tick.
NextAsync ==
    \/ NextOver({"DRAW"}, {1}, {SaveInput})
    \/ \E x \in {1}, down \in BOOLEAN : MouseCallbackBetween(x, down)

SpecAsync == Init /\ [][NextAsync]_vars

\* -------------------------------------------------------------- properties
\* What main.py prints for reasons other than a failed save.
OtherMessages == {"", "Camera Error", "Invalid brush name", "Error setting brush property"}

\* C1: when run() has left its loop, no stroke is left open: the pen-up has
\* been applied to a stroke that was being drawn.
C1_StrokeSealedAtShutdown ==
    pc = "done" => ~last_draw_state /\ canvas.active = <<>>

\* C2: in the first frame after a DRAW frame whose gesture is not DRAW, for
\* whatever reason, the gesture path has sealed the stroke and committed it
\* as one history entry.
C2_StrokeSealedWhenDrawingEnds ==
    (pc = "ui" /\ prevDraw /\ gesture # "DRAW")
        => canvas.active = <<>> /\ commits = 1

\* C3: while the SELECT pose is held, the gesture makes the UI's clicked
\* argument true at most once, and never in a frame whose state is not
\* COMPLETED.
C3_SelectClicksOnce ==
    /\ hold.pose = "SELECT" => hold.clicks <= 1
    /\ (pc = "post" /\ gesture = "SELECT") => state = "COMPLETED"

C5_RecognizerResetOnHandLoss ==
    absent >= HandLossFrames => recognizer = RecognizerReset(recognizer)

\* C6: right after an undo() that undid something, redo() gives back the
\* raster as it was immediately before that undo().
C6_UndoRedoRestoresRaster ==
    track.preUndo # <<>> => CanvasRedo(canvas).raster = track.preUndo[1]

\* C7: right after an edit (a stroke committed by pen-up, or a clear),
\* redo() is a no-op: nothing of the canvas changes.
C7_EditDiscardsRedo ==
    track.lastOp \in {"commit", "clear"} => CanvasRedo(canvas) = canvas

\* C7, witness: an edit made while entries were redoable.
C7_Witness ==
    track.lastOp \in {"commit", "clear"} /\ track.dropped > 0

\* C8: the active stroke holds the fingertip positions of the DRAW frames
\* since the last pen-up, and the stroke a pen-up commits holds exactly the
\* positions fed up to it, in order.
C8_StrokeIsFedPoints ==
    /\ canvas.active = fed
    /\ commits = 1 => sealed.stroke = sealed.fed /\ sealed.fed # <<>>

\* C8, witness: a committed stroke of two different positions.
C8_Witness ==
    /\ commits = 1 /\ Len(sealed.stroke) = 2
    /\ sealed.stroke[1] # sealed.stroke[2]

\* C9: no exception leaves run(): the session is never aborted by a
\* collaborator call that raises.
C9_NoExceptionEscapes == pc # "aborted"

\* C10: a failed canvas.save is reported by the tick and the session goes on.
C10_SaveFailureReported ==
    saveFailed => logged \notin OtherMessages /\ pc # "aborted"

\* C11: a brush_selected command whose name is not a known brush, or a
\* brush_property_changed command whose value cannot be converted to the
\* number its property expects, is logged and leaves the canvas unchanged.
C11_ConfigErrorLogged ==
    (/\ pc = "post"
     /\ \/ /\ uiCmd.type = "brush_selected"
           /\ uiCmd.name = NotAStr \/ ~IsBrushType(Upper(uiCmd.name))
        \/ /\ uiCmd.type = "brush_property_changed"
           /\ uiCmd.name \in {"size", "opacity", "hardness", "flow"}
           /\ ~PropertyNumber(uiCmd).ok)
        => /\ logged \in {"Invalid brush name", "Error setting brush property"}
           /\ ~uiChanged

\* C12: within a tick every canvas call made by the gesture path comes
\* before every canvas call made by the UI dispatch: no call of the UI
\* dispatch is followed by a call of the gesture path.
C12_GestureBeforeUI ==
    \A j \in 1..Len(calls) : \A k \in 1..Len(calls) :
        (j < k /\ calls[j].on = "canvas" /\ calls[k].on = "canvas")
            => ~(calls[j].by = "ui" /\ calls[k].by = "gesture")

\* C12, witness: a tick whose gesture path made two canvas calls (the
\* pen-up and a command) and whose UI dispatch made one.
C12_Witness ==
    /\ pc = "post" /\ Len(calls) = 5
    /\ calls[2].op = "pen_up" /\ calls[3].by = "gesture"
    /\ calls[5].on = "canvas" /\ calls[5].by = "ui"

\* C13: recognize_gesture is called at most once in a tick, and only in a
\* frame in which a hand was detected and its positions found; in any other
\* frame it is not called and gesture, state and conf are NONE, NONE and 0.
C13_RecognizerCalledOnHandOnly ==
    LET n == Cardinality({k \in 1..Len(calls) : calls[k].op = "recognize_gesture"})
    IN  /\ n <= 1
        /\ (pc \in {"ui", "post"} /\ absent > 0) =>
              n = 0 /\ gesture = "NONE" /\ state = "NONE" /\ conf = 0
        /\ (pc \in {"ui", "post"} /\ absent = 0) => n = 1

\* C13, witness: the hand is lost in the middle of a stroke.
C13_Witness ==
    pc = "ui" /\ absent > 0 /\ last_draw_state /\ calls = <<>>

\* C14: once the camera read of a tick has failed and the message is out,
\* the session has ended with the camera released, and that tick has called
\* neither the recognizer nor the canvas nor the UI.
C14_CameraFailureFatal ==
    logged = "Camera Error" => pc = "done" /\ cap_released /\ calls = <<>>

\* C14, witness: the camera fails after a stroke was committed, while
\* another one is being drawn.
C14_Witness ==
    /\ logged = "Camera Error" /\ pc = "done"
    /\ canvas.history # <<>> /\ canvas.active # <<>>

\* C15: the gesture path of a frame either draws or commands.  A DRAW frame
\* makes the one call draw(point) and no command; any other frame makes no
\* draw(point), and makes a command only when the state is COMPLETED: then
\* exactly the one matching the gesture (CLEAR clear, UNDO undo, REDO redo,
\* SAVE save, TOOL_CHANGE set_brush).
C15_DrawOrOneCommand ==
    LET ByGesture(e) == e.on = "canvas" /\ e.by = "gesture"
        IsCommand(e) == e.op \notin {"draw", "pen_up"}
        made == SelectSeq(calls, ByGesture)
        cmds == SelectSeq(made, IsCommand)
        match == CASE gesture = "CLEAR" -> "clear"
                   [] gesture = "UNDO" -> "undo"
                   [] gesture = "REDO" -> "redo"
                   [] gesture = "SAVE" -> "save"
                   [] gesture = "TOOL_CHANGE" -> "set_brush"
                   [] OTHER -> "none"
    IN  pc = "ui" =>
          /\ gesture = "DRAW" => Len(made) = 1 /\ made[1].op = "draw"
          /\ gesture # "DRAW" => \A k \in 1..Len(made) : made[k].op # "draw"
          /\ Len(cmds) <= 1
          /\ (state = "COMPLETED" /\ match # "none") =>
                Len(cmds) = 1 /\ cmds[1].op = match
          /\ (state # "COMPLETED" \/ match = "none") => cmds = <<>>

\* C15, witness: a completed REDO gesture right after a DRAW frame.
C15_Witness ==
    /\ pc = "ui" /\ gesture = "REDO" /\ state = "COMPLETED"
    /\ Len(calls) = 3 /\ calls[2].op = "pen_up" /\ calls[3].op = "redo"

\* C16: no clear, undo or redo is applied to the canvas while a stroke is
\* active and unsealed, whichever path of the tick makes the call.
C16_NoHistoryCommandMidStroke ==
    \A k \in 1..Len(calls) :
        (calls[k].on = "canvas" /\ calls[k].op \in {"clear", "undo", "redo"})
            => ~calls[k].open

\* C17: last_draw_state is true exactly when the canvas has an active,
\* unsealed stroke; each pen-up draw(None) finds a stroke active, a tick
\* makes at most one, and the stroke it commits is not empty.
C17_DrawStateIsActiveStroke ==
    LET ups == {k \in 1..Len(calls) : calls[k].op = "pen_up"}
    IN  /\ last_draw_state <=> canvas.active # <<>>
        /\ \A k \in ups : calls[k].open
        /\ Cardinality(ups) <= 1
        /\ Cardinality(ups) = commits
        /\ commits = 1 => sealed.stroke # <<>>

\* C17, witness: a pen-up after a UI history command changed the canvas
\* in the middle of the stroke.
C17_Witness ==
    /\ pc = "ui" /\ commits = 1 /\ ~last_draw_state
    /\ Len(sealed.stroke) = 2
    /\ canvas.cursor = 2 /\ Len(canvas.history) = 2
    /\ canvas.history[1].kind = "clear" /\ canvas.history[2].kind = "stroke"

\* C18: a left-button-down event recorded by mouse_callback reaches one
\* handle_interaction call as clicked = true: it is not wiped by the reset
\* of mouse_click before any call has seen it, and it is not seen again in
\* a later tick.
C18_ClickDeliveredOnce == click \notin {"dropped", "again"}

\* C19: each completed TOOL_CHANGE gesture sets the brush that follows the
\* current one in BrushType's declaration order, the first following the
\* last; len(BrushType) of them in a row bring the brush back to where it
\* started, having set every type once; none changes raster, stroke or
\* history.
C19_ToolChangeCycles ==
    LET n == Len(BrushTypes)
        Pos(b) == CHOOSE p \in 1..n : BrushTypes[p] = b
        Succ(b) == IF Pos(b) = n THEN BrushTypes[1] ELSE BrushTypes[Pos(b) + 1]
        seen == tool.seen
    IN  /\ tool.kept
        /\ \A k \in 1..Len(seen) :
              seen[k] = Succ(IF k = 1 THEN tool.start ELSE seen[k - 1])
        /\ seen # <<>> => canvas.brush_type = seen[Len(seen)]
        /\ Len(seen) = n =>
              /\ seen[n] = tool.start
              /\ Cardinality({seen[k] : k \in 1..n}) = n

\* C19, witness: len(BrushType) completed TOOL_CHANGE gestures in a row,
\* with the longest debounce window, the first of them ending a stroke.
C19_Witness ==
    /\ Len(tool.seen) = Len(BrushTypes) /\ window = MaxWindow
    /\ canvas.history # <<>>

\* C20: the steps of a tick in which no hand is detected and the UI returns
\* no command change neither the canvas (raster, brush configuration,
\* history, cursor, active stroke) nor last_draw_state; the step that
\* fetches the canvas image and renders changes neither in any tick.
C20_IdleTickChangesNothing ==
    [][(\/ pc = "read" /\ pc' = "ui" /\ absent' > 0
        \/ pc = "ui" /\ pc' = "post" /\ absent > 0 /\ uiCmd' = NoInteraction
        \/ pc = "post" /\ pc' = "key")
          => canvas' = canvas /\ last_draw_state' = last_draw_state]_vars

\* C20, witness: such a tick with a stroke open and another one committed,
\* and a click that no widget took.
C20_Witness ==
    /\ pc = "post" /\ absent > 0 /\ uiCmd = NoInteraction /\ mouse_click
    /\ canvas.active # <<>> /\ canvas.history # <<>>

====
